---- MODULE Spec2Model ----
(***************************************************************************)
(* Model of src/src/lib.rs: Cache<K, V>, a bounded key/value cache that    *)
(* keeps a map  items : K -> (V, stamp)  and a deque  recency_buckets  of  *)
(* (stamp, key) pairs, and evicts from the front of the deque.             *)
(***************************************************************************)
EXTENDS Integers, Sequences, FiniteSets, TLC

\* ------------------------------------------------------------- bounds
\* Largest capacity handed to initialize (u16 in the code).
MaxCap == 2
\* Number of distinct keys the callers use.
NumKeys == 3
\* In Spec the generation counter stays at or below MaxG (no get hits beyond).
MaxG == 2
\* Width of the generation counter in bits (u32 in the code, scaled down).
GBits == 3
\* In SpecWrap get is not called once the deque holds MaxBuckets entries.
MaxBuckets == 4

Keys == 1..NumKeys
\* The keys of the callers that run the counter to its limit.
WrapKeys == {1, 2}
Vals == {"a", "b"}
None == "None"
Unit == "unit"
\* Largest value the generation counter can hold (u32::MAX in the code).
GLimit == (2 ^ GBits) - 1

VARIABLES
    status,           \* "none" before initialize, "ready", or "panicked"
    g,                \* Cache.g
    max,              \* Cache.max
    items,            \* Cache.items: key -> <<value, stamp>>
    recency_buckets,  \* Cache.recency_buckets: sequence of <<stamp, key>>
    op,               \* the call just made, see CallGet and CallSet
    ret,              \* what the call just made returned
    order,            \* present keys, least recently accessed first (observer)
    inserted,         \* per key, the value of the set that last inserted it (observer)
    scen,             \* how many calls of Scenario the run so far has made, or -1
    twin              \* in SpecPair: a second cache that is given the same calls

vars == <<status, g, max, items, recency_buckets, op, ret, order, inserted, scen,
          twin>>

\* ------------------------------------------------------------ helpers
\* len() of the map.
MapLen(its) == Cardinality(DOMAIN its)

\* HashMap::remove: removing an absent key changes nothing.
MapRemove(its, k) == [x \in (DOMAIN its) \ {k} |-> its[x]]

\* Slip: set stamps the new entry with g + 1, as get does.
MapInsertNextStamp(its, k, v, stamp) == (k :> <<v, stamp + 1>>) @@ its

\* HashMap::insert of (v, stamp) under k.
MapInsert(its, k, v, stamp) == (k :> <<v, stamp>>) @@ its

\* entry.1 = recency: the value is kept, the stamp replaced.
MapRestamp(its, k, stamp) == [its EXCEPT ![k] = <<its[k][1], stamp>>]

\* The deque read front to back is non-decreasing in stamp.
Sorted(bk) == \A i, j \in 1..Len(bk) : i < j => bk[i][1] <= bk[j][1]

\* VecDeque::binary_search_by(|(g, _k)| g.cmp(&stamp)): the comparator looks at
\* the stamp alone.  Ok(idx) is only returned for an idx whose stamp compares
\* Equal; with several equal stamps the library may return any of them, and on
\* an unsorted deque the search may also miss.  0 stands for Err(_).
BinarySearch(bk, stamp) ==
    LET hits == {i \in 1..Len(bk) : bk[i][1] = stamp}
    IN  hits \cup (IF hits = {} \/ ~Sorted(bk) THEN {0} ELSE {})

\* pop_front() when idx == 0, remove(idx) otherwise: both drop the entry at
\* the found position; Err(_) drops nothing.
RemoveFound(bk, idx) ==
    IF idx = 0 THEN bk
    ELSE [i \in 1..(Len(bk) - 1) |-> IF i < idx THEN bk[i] ELSE bk[i + 1]]

\* self.g + 1 in a build without overflow checks (wrapping add).
Recency(gen) == (gen + 1) % (2 ^ GBits)

\* Slip: the comparison written with >= (evicts one entry too early).
MustEvictEarly(its, m) == MapLen(its) + 1 >= m

\* self.items.len() + 1 > self.max as usize
MustEvict(its, m) == MapLen(its) + 1 > m

\* ------------------------------------------------------------ observers
\* s without the keys in ks, order kept.
Without(s, ks) == SelectSeq(s, LAMBDA x : x \notin ks)

Scenario ==
    << [name |-> "set", k |-> 1, v |-> "a"],
       [name |-> "set", k |-> 2, v |-> "b"],
       [name |-> "set", k |-> 3, v |-> "c"],
       [name |-> "get", k |-> 1, v |-> None],
       [name |-> "get", k |-> 2, v |-> None],
       [name |-> "set", k |-> 4, v |-> "d"],
       [name |-> "get", k |-> 3, v |-> None],
       [name |-> "get", k |-> 1, v |-> None],
       [name |-> "get", k |-> 2, v |-> None] >>

\* The capacity, keys and values of the scenario.
ScenCap == 3
ScenKeys == {Scenario[i].k : i \in DOMAIN Scenario}
ScenVal(k) ==
    Scenario[CHOOSE i \in DOMAIN Scenario :
                 Scenario[i].name = "set" /\ Scenario[i].k = k].v
ScenGets == Cardinality({i \in DOMAIN Scenario : Scenario[i].name = "get"})

ScenNext(name, k, v) ==
    IF scen >= 0 /\ scen < Len(Scenario)
       /\ Scenario[scen + 1] = [name |-> name, k |-> k, v |-> v]
    THEN scen + 1 ELSE -1

\* The record of a call.  name, k, v: the call and its arguments; hit: whether
\* k was present when it was made.  A get that directly follows a set on the
\* same key also carries that set's value and hit (setV, setHit).
CallOther(name) ==
    [name |-> name, k |-> 0, v |-> None, hit |-> FALSE,
     setV |-> None, setHit |-> FALSE]

CallSet(k, v, hit) ==
    [name |-> "set", k |-> k, v |-> v, hit |-> hit,
     setV |-> None, setHit |-> FALSE]

CallGet(k, hit) ==
    LET follows == op.name = "set" /\ op.k = k
    IN  [name |-> "get", k |-> k, v |-> None, hit |-> hit,
         setV |-> IF follows THEN op.v ELSE None,
         setHit |-> follows /\ op.hit]

\* ------------------------------------------------------- the second cache
\* Cache::initialize(m), as a record of the cache's fields and its last result.
TwinInitialize(m, st) ==
    [status |-> st, g |-> 0, max |-> m, items |-> <<>>,
     recency_buckets |-> <<>>, ret |-> Unit]

\* Cache::get(k) on the cache c: the caches it can become, one per entry the
\* binary search may return.
TwinGet(c, k) ==
    IF c.status # "ready" THEN {c}
    ELSE IF k \notin DOMAIN c.items THEN {[c EXCEPT !.ret = None]}
    ELSE LET recency == Recency(c.g)
         IN  { [c EXCEPT
                  !.recency_buckets =
                      Append(RemoveFound(c.recency_buckets, idx), <<recency, k>>),
                  !.items = MapRestamp(c.items, k, recency),
                  !.g = recency,
                  !.ret = c.items[k][1]] :
               idx \in BinarySearch(c.recency_buckets, c.items[k][2]) }

\* Cache::set(k, v) on the cache c.
TwinSet(c, k, v) ==
    IF c.status # "ready" THEN c
    ELSE IF k \in DOMAIN c.items THEN [c EXCEPT !.ret = Unit]
    ELSE IF MustEvict(c.items, c.max) /\ c.recency_buckets = <<>>
         THEN [c EXCEPT !.status = "panicked"]
    ELSE LET ev  == MustEvict(c.items, c.max)
             bk  == IF ev THEN Tail(c.recency_buckets) ELSE c.recency_buckets
             its == IF ev THEN MapRemove(c.items, Head(c.recency_buckets)[2])
                          ELSE c.items
         IN  [c EXCEPT !.recency_buckets = Append(bk, <<c.g, k>>),
                       !.items = MapInsert(its, k, v, c.g),
                       !.ret = Unit]

\* ------------------------------------------------------------ actions
Init ==
    /\ status = "none"
    /\ g = 0
    /\ max = 0
    /\ items = <<>>
    /\ recency_buckets = <<>>
    /\ op = CallOther("none")
    /\ ret = Unit
    /\ order = <<>>
    /\ inserted = [k \in Keys \cup ScenKeys |-> None]
    /\ scen = -1
    /\ twin = TwinInitialize(0, "none")

\* Cache::initialize(max): any u16 is accepted, 0 included.
Initialize(m) ==
    /\ status = "none"
    /\ status' = "ready"
    /\ g' = 0
    /\ max' = m
    /\ items' = <<>>
    /\ recency_buckets' = <<>>
    /\ op' = CallOther("initialize")
    /\ ret' = Unit
    /\ scen' = IF m = ScenCap THEN 0 ELSE -1
    /\ UNCHANGED <<order, inserted>>

\* Slip: the generation is advanced before the lookup, so a miss advances it too.
GetMissBumps(k) ==
    /\ status = "ready"
    /\ k \notin DOMAIN items
    /\ g' = Recency(g)
    /\ op' = CallGet(k, FALSE)
    /\ ret' = None
    /\ scen' = ScenNext("get", k, None)
    /\ UNCHANGED <<status, max, items, recency_buckets, order, inserted>>

\* Cache::get, key absent: None, nothing touched.
GetMiss(k) ==
    /\ status = "ready"
    /\ k \notin DOMAIN items
    /\ op' = CallGet(k, FALSE)
    /\ ret' = None
    /\ scen' = ScenNext("get", k, None)
    /\ UNCHANGED <<status, g, max, items, recency_buckets, order, inserted>>

\* Cache::get, key present: the entry found by the search on the key's stamp
\* is dropped, (g+1, k) is appended, the key is restamped and g advanced.
GetHit(k) ==
    /\ status = "ready"
    /\ k \in DOMAIN items
    /\ LET recency == Recency(g)
       IN  \E idx \in BinarySearch(recency_buckets, items[k][2]) :
             /\ recency_buckets' =
                    Append(RemoveFound(recency_buckets, idx), <<recency, k>>)
             /\ items' = MapRestamp(items, k, recency)
             /\ g' = recency
             /\ ret' = items'[k][1]
    /\ op' = CallGet(k, TRUE)
    /\ order' = Append(Without(order, {k}), k)
    /\ scen' = ScenNext("get", k, None)
    /\ UNCHANGED <<status, max, inserted>>

\* Cache::get, key present and g == u32::MAX in a build with overflow checks:
\* self.g + 1 panics before anything is written.
GetOverflow(k) ==
    /\ status = "ready"
    /\ k \in DOMAIN items
    /\ g = GLimit
    /\ status' = "panicked"
    /\ op' = CallGet(k, TRUE)
    /\ UNCHANGED <<g, max, items, recency_buckets, ret, order, inserted, scen>>

\* Slip: no early return, the present key's entry is overwritten with (v, g).
SetPresentOverwrites(k, v) ==
    /\ status = "ready"
    /\ k \in DOMAIN items
    /\ items' = MapInsert(items, k, v, g)
    /\ op' = CallSet(k, v, TRUE)
    /\ ret' = Unit
    /\ scen' = ScenNext("set", k, v)
    /\ UNCHANGED <<status, g, max, recency_buckets, order, inserted>>

\* Cache::set, key present: early return.
SetPresent(k, v) ==
    /\ status = "ready"
    /\ k \in DOMAIN items
    /\ op' = CallSet(k, v, TRUE)
    /\ ret' = Unit
    /\ scen' = ScenNext("set", k, v)
    /\ UNCHANGED <<status, g, max, items, recency_buckets, order, inserted>>

\* Slip: the insert sits in the else branch of the eviction, so a set that
\* evicts stores nothing.
SetInsertOrEvict(k, v) ==
    /\ status = "ready"
    /\ k \notin DOMAIN items
    /\ ~(MustEvict(items, max) /\ recency_buckets = <<>>)
    /\ LET ev   == MustEvict(items, max)
           its  == IF ev THEN MapRemove(items, Head(recency_buckets)[2]) ELSE items
       IN  /\ recency_buckets' =
                  IF ev THEN Tail(recency_buckets) ELSE Append(recency_buckets, <<g, k>>)
           /\ items' = IF ev THEN its ELSE MapInsert(its, k, v, g)
           /\ order' = IF ev THEN Without(order, (DOMAIN items) \ (DOMAIN its))
                              ELSE Append(order, k)
    /\ inserted' = [inserted EXCEPT ![k] = v]
    /\ op' = CallSet(k, v, FALSE)
    /\ ret' = Unit
    /\ scen' = ScenNext("set", k, v)
    /\ UNCHANGED <<status, g, max>>

\* Cache::set, key absent: when the map is full the front of the deque is
\* popped and its key removed from the map; then (g, k) is appended and
\* (v, g) inserted under k.
SetInsert(k, v) ==
    /\ status = "ready"
    /\ k \notin DOMAIN items
    /\ ~(MustEvict(items, max) /\ recency_buckets = <<>>)
    /\ LET ev   == MustEvict(items, max)
           bk   == IF ev THEN Tail(recency_buckets) ELSE recency_buckets
           its  == IF ev THEN MapRemove(items, Head(recency_buckets)[2]) ELSE items
       IN  /\ recency_buckets' = Append(bk, <<g, k>>)
           /\ items' = MapInsert(its, k, v, g)
           /\ order' = Append(Without(order, (DOMAIN items) \ (DOMAIN its)), k)
    /\ inserted' = [inserted EXCEPT ![k] = v]
    /\ op' = CallSet(k, v, FALSE)
    /\ ret' = Unit
    /\ scen' = ScenNext("set", k, v)
    /\ UNCHANGED <<status, g, max>>

\* Cache::set, key absent, map full and deque empty: pop_front() is None and
\* unwrap() panics before anything is written.
SetPanic(k, v) ==
    /\ status = "ready"
    /\ k \notin DOMAIN items
    /\ MustEvict(items, max)
    /\ recency_buckets = <<>>
    /\ status' = "panicked"
    /\ op' = CallSet(k, v, FALSE)
    /\ UNCHANGED <<g, max, items, recency_buckets, ret, order, inserted, scen>>

Get(k) == GetMiss(k) \/ GetHit(k)

Set(k, v) == SetPresent(k, v) \/ SetInsert(k, v) \/ SetPanic(k, v)

\* In every next-state relation below Get(k) and Set(k, v) are written out
\* branch by branch.

\* Callers that stop hitting before the counter gets near its limit.
Next ==
    \/ \E m \in 0..MaxCap : Initialize(m) /\ UNCHANGED twin
    \/ \E k \in Keys : GetMiss(k) /\ UNCHANGED twin
    \/ \E k \in Keys : g < MaxG /\ GetHit(k) /\ UNCHANGED twin
    \/ \E k \in Keys, v \in Vals : SetPresent(k, v) /\ UNCHANGED twin
    \/ \E k \in Keys, v \in Vals : SetInsert(k, v) /\ UNCHANGED twin
    \/ \E k \in Keys, v \in Vals : SetPanic(k, v) /\ UNCHANGED twin

Spec == Init /\ [][Next]_vars

\* Callers that use the scenario's capacity, keys and values, in any order.
NextScen ==
    \/ \E m \in 0..ScenCap : Initialize(m) /\ UNCHANGED twin
    \/ \E k \in ScenKeys : GetMiss(k) /\ UNCHANGED twin
    \/ \E k \in ScenKeys : g < ScenGets /\ GetHit(k) /\ UNCHANGED twin
    \/ \E k \in ScenKeys : SetPresent(k, ScenVal(k)) /\ UNCHANGED twin
    \/ \E k \in ScenKeys : SetInsert(k, ScenVal(k)) /\ UNCHANGED twin
    \/ \E k \in ScenKeys : SetPanic(k, ScenVal(k)) /\ UNCHANGED twin

SpecScen == Init /\ [][NextScen]_vars

\* Callers that keep hitting until the counter reaches its limit; a build
\* with overflow checks panics there and one without wraps to 0.
NextWrap ==
    \/ \E m \in 0..MaxCap : Initialize(m) /\ UNCHANGED twin
    \/ \E k \in WrapKeys :
          Len(recency_buckets) < MaxBuckets /\ GetMiss(k) /\ UNCHANGED twin
    \/ \E k \in WrapKeys :
          Len(recency_buckets) < MaxBuckets /\ GetHit(k) /\ UNCHANGED twin
    \/ \E k \in WrapKeys :
          Len(recency_buckets) < MaxBuckets /\ GetOverflow(k) /\ UNCHANGED twin
    \/ \E k \in WrapKeys : SetPresent(k, ScenVal(k)) /\ UNCHANGED twin
    \/ \E k \in WrapKeys : SetInsert(k, ScenVal(k)) /\ UNCHANGED twin
    \/ \E k \in WrapKeys : SetPanic(k, ScenVal(k)) /\ UNCHANGED twin

SpecWrap == Init /\ [][NextWrap]_vars

\* Two caches given the same calls; each resolves its own binary searches.
\* The callers stop hitting once either counter is at MaxG.
NextPair ==
    \/ \E m \in 0..MaxCap :
          Initialize(m) /\ twin' = TwinInitialize(m, "ready")
    \/ \E k \in Keys :
          /\ k \in DOMAIN twin.items => twin.g < MaxG
          /\ GetMiss(k)
          /\ twin' \in TwinGet(twin, k)
    \/ \E k \in Keys :
          /\ g < MaxG
          /\ k \in DOMAIN twin.items => twin.g < MaxG
          /\ GetHit(k)
          /\ twin' \in TwinGet(twin, k)
    \/ \E k \in Keys, v \in Vals :
          SetPresent(k, v) /\ twin' = TwinSet(twin, k, v)
    \/ \E k \in Keys, v \in Vals :
          SetInsert(k, v) /\ twin' = TwinSet(twin, k, v)
    \/ \E k \in Keys, v \in Vals :
          SetPanic(k, v) /\ twin' = TwinSet(twin, k, v)

SpecPair == Init /\ [][NextPair]_vars

\* ------------------------------------------------------------ properties
\* The keys a step removed from the map.
Removed == (DOMAIN items) \ (DOMAIN items')

\* The smallest stamp stored in the map.
MinStamp(its) == CHOOSE s \in {its[x][2] : x \in DOMAIN its} :
                     \A x \in DOMAIN its : s <= its[x][2]

\* The position of key x in the sequence of keys s.
Pos(s, x) == CHOOSE i \in 1..Len(s) : s[i] = x

\* The keys some set has inserted so far.
EverSet == {k \in DOMAIN inserted : inserted[k] # None}

\* This step is a completed set(op'.k, op'.v) on an absent key that finds the
\* map full.
EvictingSet ==
    /\ status = "ready" /\ status' = "ready"
    /\ op'.name = "set" /\ op'.k \notin DOMAIN items
    /\ MapLen(items) + 1 > max

\* C1: with max >= 1 the map never holds more than max keys.
C1_CapacityInvariant ==
    (status # "none" /\ max >= 1) => MapLen(items) <= max

\* C2: a set that triggers eviction removes from the map one present key,
\* whose stamp in the map is the minimum over all present keys.
C2_EvictsMinimumStamp ==
    [][ (EvictingSet /\ max >= 1) =>
          \E r \in DOMAIN items :
              Removed = {r} /\ items[r][2] = MinStamp(items) ]_vars

\* C3: capacity 3, set(1,a) set(2,b) set(3,c) get(1) get(2) set(4,d) leaves
\* three keys without key 3; get(3), get(1), get(2) then return not-found,
\* "a" and "b".
C3_Scenario ==
    /\ scen = 6 => (3 \notin DOMAIN items /\ MapLen(items) = 3)
    /\ scen = 7 => ret = None
    /\ scen = 8 => ret = "a"
    /\ scen = 9 => ret = "b"

\* C4: the key a set evicts was last accessed (inserted or hit by get)
\* before every key that stays present.
C4_EvictsLeastRecentlyAccessed ==
    [][ (EvictingSet /\ max >= 1) =>
          \A r \in Removed : \A j \in (DOMAIN items) \ Removed :
              Pos(order, r) < Pos(order, j) ]_vars

\* The call just made is a completed get(k) that directly follows a
\* set(k, op.setV).
GetAfterSet == status = "ready" /\ op.name = "get" /\ op.setV # None

\* C5 as claimed: set(k, v) directly followed by get(k) returns v, whether k
\* was absent or present before the set.
C5_RoundTripAlways ==
    GetAfterSet => ret = op.setV

\* C5 as amended: set(k, v) directly followed by get(k) returns v when k was
\* absent before the set, and the value of the set that inserted k when k
\* was already present.
C5_RoundTripAbsent ==
    GetAfterSet =>
        /\ ret = inserted[op.k]
        /\ ~op.setHit => ret = op.setV

C5_Witness ==
    /\ GetAfterSet /\ ~op.setHit /\ ret = op.setV
    /\ max = MaxCap /\ MapLen(items) >= max /\ EverSet = Keys

\* C6: while at most max distinct keys have been set, each of them is present
\* with the value of the set that inserted it, and get returns that value.
C6_NoEvictionBelowCapacity ==
    (status = "ready" /\ Cardinality(EverSet) <= max) =>
        /\ \A k \in EverSet : k \in DOMAIN items /\ items[k][1] = inserted[k]
        /\ (op.name = "get" /\ op.k \in EverSet) => ret = inserted[op.k]

C6_Witness ==
    /\ status = "ready" /\ max = MaxCap /\ Cardinality(EverSet) = max
    /\ op.name = "get" /\ op.hit /\ g = MaxG

\* C7: get on an absent key returns None and leaves g, the map and the deque
\* as they were.
C7_GetMissChangesNothing ==
    [][ (status = "ready" /\ op'.name = "get" /\ op'.k \notin DOMAIN items) =>
          /\ ret' = None
          /\ status' = "ready"
          /\ UNCHANGED <<g, max, items, recency_buckets>> ]_vars

C7_Witness ==
    /\ status = "ready" /\ op.name = "get" /\ ~op.hit /\ ret = None
    /\ items # <<>> /\ g > 0

\* C8: set on a present key leaves the value, the stamps, g, the deque and
\* the present keys as they were, also when the map is full.
C8_SetPresentIsNoOp ==
    [][ (status = "ready" /\ op'.name = "set" /\ op'.k \in DOMAIN items) =>
          /\ status' = "ready"
          /\ UNCHANGED <<g, max, items, recency_buckets>> ]_vars

C8_Witness ==
    /\ status = "ready" /\ op.name = "set" /\ op.hit
    /\ MapLen(items) >= max /\ max >= 1
    /\ items[op.k][1] # op.v

\* C9: with max >= 1 no get and no set panics.
C9_NoPanic ==
    max >= 1 => status # "panicked"

\* The unwrap of C9 alone: with max >= 1 a full map comes with a non-empty
\* deque, so pop_front() finds an entry.
C9_EvictionFindsEntry ==
    (status = "ready" /\ max >= 1 /\ MapLen(items) + 1 > max) =>
        recency_buckets # <<>>

\* C10: no cache with max = 0 exists.
C10_ZeroCapacityRejected ==
    status # "none" => max >= 1

\* The positions of the deque that carry key k.
EntriesOf(bk, k) == {i \in 1..Len(bk) : bk[i][2] = k}

\* C11: every present key has exactly one entry in the deque, and that entry
\* carries the stamp the map stores for the key.
C11_IndexMatchesMap ==
    status # "none" =>
        \A k \in DOMAIN items :
            /\ Cardinality(EntriesOf(recency_buckets, k)) = 1
            /\ \A i \in EntriesOf(recency_buckets, k) :
                   recency_buckets[i][1] = items[k][2]

\* C12: the deque read front to back is non-decreasing in stamp; its back
\* entry, the one pushed last, carries a stamp >= every other stamp in it.
C12_Sortedness ==
    status # "none" =>
        /\ Sorted(recency_buckets)
        /\ \A i \in 1..Len(recency_buckets) :
               recency_buckets[i][1]
                   <= recency_buckets[Len(recency_buckets)][1]

\* C13: a set on an absent key into a map of max keys removes exactly one
\* present key and leaves max keys; a set into a map of fewer keys removes
\* none; a get removes none.
C13_ExactlyOneVictim ==
    [][ (status = "ready" /\ status' = "ready" /\ max >= 1) =>
          /\ (op'.name = "set" /\ op'.k \notin DOMAIN items
                /\ MapLen(items) = max) =>
                 (Cardinality(Removed) = 1 /\ MapLen(items') = max)
          /\ (op'.name = "set" /\ MapLen(items) < max) => Removed = {}
          /\ op'.name = "get" => Removed = {} ]_vars

\* C14: get on a present key k returns k's value, stamps k with g+1 and
\* advances g by exactly 1; the present keys, all values and the other
\* keys' stamps stay.
C14_GetHitEffect ==
    [][ (status = "ready" /\ op'.name = "get" /\ op'.k \in DOMAIN items) =>
          /\ status' = "ready"
          /\ ret' = items[op'.k][1]
          /\ g' = g + 1
          /\ DOMAIN items' = DOMAIN items
          /\ items'[op'.k][2] = g + 1
          /\ \A x \in DOMAIN items :
                 /\ items'[x][1] = items[x][1]
                 /\ x # op'.k => items'[x][2] = items[x][2] ]_vars

\* Every stamp in the map and in the deque is <= g.
StampsAtMostG ==
    /\ \A x \in DOMAIN items : items[x][2] <= g
    /\ \A i \in 1..Len(recency_buckets) : recency_buckets[i][1] <= g

\* C15: g never decreases, and no stored stamp exceeds g.
C15_GenerationInvariant ==
    [][ g' >= g /\ StampsAtMostG' ]_vars

\* C16: a set leaves g as it was and stamps the key it inserts, in the map and
\* at the back of the deque, with that g; g changes only in a get that hits.
C16_SetKeepsGeneration ==
    [][ /\ op'.name = "set" =>
              /\ g' = g
              /\ (status' = "ready" /\ op'.k \notin DOMAIN items) =>
                     /\ items'[op'.k][2] = g
                     /\ recency_buckets'[Len(recency_buckets')] = <<g, op'.k>>
        /\ g' # g => (op'.name = "get" /\ op'.k \in DOMAIN items) ]_vars

C16_Witness ==
    /\ status = "ready" /\ op.name = "set" /\ ~op.hit /\ g = MaxG
    /\ op.k \in DOMAIN items /\ items[op.k][2] = g
    /\ MapLen(items) >= max /\ max = MaxCap

\* C18: the deque is at most max long, as long as the map, and holds no entry
\* for an absent key and no second entry for a present key.
C18_IndexBounded ==
    status # "none" =>
        /\ Len(recency_buckets) <= max
        /\ Len(recency_buckets) = MapLen(items)
        /\ \A i \in 1..Len(recency_buckets) :
               /\ recency_buckets[i][2] \in DOMAIN items
               /\ EntriesOf(recency_buckets, recency_buckets[i][2]) = {i}

\* C19: a get that hits never aborts and stamps the key above every stamp
\* stored so far, also when g is at the counter's limit.
C19_NoWrapAround ==
    [][ (status = "ready" /\ op'.name = "get" /\ op'.k \in DOMAIN items) =>
          /\ status' = "ready"
          /\ g' > g
          /\ \A x \in DOMAIN items : items[x][2] < items'[op'.k][2] ]_vars

\* The present keys whose stamp in the map is the minimum.
MinStampKeys(its) == {x \in DOMAIN its : its[x][2] = MinStamp(its)}

\* C17: two caches given the same calls hold the same keys and return the
\* same results, whichever equal-stamp entry their searches match; and a set
\* that evicts removes, among the present keys with the minimum stamp, the
\* one whose entry was pushed first.
C17_DeterministicUnderTies ==
    [][ /\ (status' = "ready" /\ twin'.status = "ready") =>
               (DOMAIN items' = DOMAIN twin'.items /\ ret' = twin'.ret)
        /\ (EvictingSet /\ max >= 1) =>
               \E r \in MinStampKeys(items) :
                   /\ Removed = {r}
                   /\ \A x \in MinStampKeys(items) :
                          Pos(order, r) <= Pos(order, x) ]_vars

\* C17, first half alone: the two caches agree on keys and results.
C17_SameKeysAndResults ==
    (status = "ready" /\ twin.status = "ready") =>
        (DOMAIN items = DOMAIN twin.items /\ ret = twin.ret)

====
